---- MODULE Spec2Model ----
(***************************************************************************)
(* Employee onboarding MCP server: the profile store                       *)
(* (EmployeeIdentifier), the step list (ConfigParser) and the tool         *)
(* handlers of OnboardingMCPServer that read and write profiles.           *)
(*                                                                         *)
(* Strings on which the code works character by character (emails, names)  *)
(* are sequences of one-character strings; the empty sequence stands for   *)
(* an argument that is undefined or "" (the code only tests such           *)
(* arguments for truthiness).  Opaque labels (notes, device type, ...) are *)
(* TLA+ strings, with the value undefined for a missing one.  Timestamps   *)
(* are readings of the clock now.                                          *)
(***************************************************************************)
EXTENDS Integers, Sequences, FiniteSets, TLC

\* Bounds of the model.
MaxTime == 1
MaxStepArg == 3
MaxCurrentStep == 5
MaxWrites == 2
MaxFiles == 3

undefined == "undefined"

Range(s) == {s[i] : i \in DOMAIN s}

(***************************************************************************)
(* String helpers                                                          *)
(***************************************************************************)
\* The lower-case form of a character; the characters the model does not
\* use in upper case, and those that have no other case, are kept.
lowerChar(c) ==
    CASE c = "A" -> "a" [] c = "B" -> "b" [] c = "C" -> "c" [] c = "D" -> "d"
      [] c = "E" -> "e" [] c = "I" -> "i" [] c = "J" -> "j" [] c = "L" -> "l"
      [] c = "M" -> "m" [] c = "N" -> "n" [] c = "O" -> "o" [] c = "P" -> "p"
      [] c = "Q" -> "q" [] c = "R" -> "r" [] c = "S" -> "s" [] c = "T" -> "t"
      [] c = "U" -> "u" [] c = "X" -> "x" [] c = "Y" -> "y" [] c = "Z" -> "z"
      [] OTHER -> c

upperChar(c) ==
    CASE c = "a" -> "A" [] c = "b" -> "B" [] c = "c" -> "C" [] c = "d" -> "D"
      [] c = "e" -> "E" [] c = "i" -> "I" [] c = "j" -> "J" [] c = "l" -> "L"
      [] c = "m" -> "M" [] c = "n" -> "N" [] c = "o" -> "O" [] c = "p" -> "P"
      [] c = "q" -> "Q" [] c = "r" -> "R" [] c = "s" -> "S" [] c = "t" -> "T"
      [] c = "u" -> "U" [] c = "x" -> "X" [] c = "y" -> "Y" [] c = "z" -> "Z"
      [] OTHER -> c

toLowerCase(s) == [i \in DOMAIN s |-> lowerChar(s[i])]

includes(s, c) == \E i \in DOMAIN s : s[i] = c

\* s.includes(sub) for a search string of any length.
includesText(s, sub) ==
    \E i \in 1..(Len(s) - Len(sub) + 1) : SubSeq(s, i, i + Len(sub) - 1) = sub

\* s.split(c): the pieces of s between the occurrences of c.
RECURSIVE split(_, _)
split(s, c) ==
    IF ~includes(s, c)
    THEN <<s>>
    ELSE LET i == CHOOSE j \in DOMAIN s :
                      s[j] = c /\ \A k \in 1..(j - 1) : s[k] # c
         IN  <<SubSeq(s, 1, i - 1)>> \o split(SubSeq(s, i + 1, Len(s)), c)

\* part.charAt(0).toUpperCase() + part.slice(1).toLowerCase()
capitalize(part) ==
    IF part = <<>>
    THEN <<>>
    ELSE <<upperChar(part[1])>> \o toLowerCase(SubSeq(part, 2, Len(part)))

\* parts.map(capitalize).join(' ')
RECURSIVE joinCapitalized(_)
joinCapitalized(parts) ==
    IF Len(parts) = 0 THEN <<>>
    ELSE IF Len(parts) = 1 THEN capitalize(parts[1])
    ELSE capitalize(parts[1]) \o <<" ">> \o joinCapitalized(Tail(parts))

extractNameFromEmail(email) ==
    LET localPart == split(email, "@")[1]
    IN  IF includes(localPart, ".") THEN joinCapitalized(split(localPart, "."))
        ELSE IF includes(localPart, "_") THEN joinCapitalized(split(localPart, "_"))
        ELSE capitalize(localPart)

\* /^[^\s@]+@[^\s@]+\.[^\s@]+$/
isValidEmail(email) ==
    /\ ~includes(email, " ")
    /\ Cardinality({i \in DOMAIN email : email[i] = "@"}) = 1
    /\ LET at == CHOOSE i \in DOMAIN email : email[i] = "@"
       IN  /\ at > 1
           /\ \E d \in (at + 2)..(Len(email) - 1) : email[d] = "."

(***************************************************************************)
(* ConfigParser: the step list                                             *)
(***************************************************************************)
\* A document of config/steps: stepNo is the number matched by /step-(\d+)/
\* in its file name (<<>> when the name has no such part), ext its extension.
\* readable tells whether fs.readFile returns its content.  Of the content,
\* label is what the document says about being required, as <<>> or <<text>>:
\* in Markdown the second bold item of the line "**Step X of Y** | **...**",
\* in HTML the value of the data-required attribute; body is the rest, a
\* sequence of pieces of plain text and of links.
StepDoc(no, slug, ext, readable, label, body) ==
    [stepNo |-> no, slug |-> slug, ext |-> ext,
     readable |-> readable, label |-> label, body |-> body]

\* A readable document without label and without links.
StepFile(no, slug, ext) == StepDoc(no, slug, ext, TRUE, <<>>, <<>>)

\* The pieces of a document body: plain text, a Markdown link [text](url), an
\* HTML anchor <a href="url">text</a>.
Text(text) == [kind |-> "text", text |-> text, url |-> ""]

Link(text, url) == [kind |-> "link", text |-> text, url |-> url]

Anchor(text, url) == [kind |-> "anchor", text |-> text, url |-> url]

\* The listing of a directory that fs.readdir cannot read (ENOENT, EACCES).
NoDirectory == <<StepDoc(<<>>, "ENOENT", "", FALSE, <<>>, <<>>)>>

\* const id = idMatch ? parseInt(idMatch[1]) : 0
fileId(file) == IF file.stepNo = <<>> THEN 0 ELSE file.stepNo[1]

\* The matches of /\[([^\]]+)\]\(([^)]+)\)/g, each pushed as [text](url).
extractMarkdownLinks(body) ==
    LET matches == SelectSeq(body, LAMBDA piece : piece.kind = "link")
    IN  [i \in DOMAIN matches |-> [text |-> matches[i].text, url |-> matches[i].url]]

\* The matches of /<a[^>]+href="([^"]+)"[^>]*>([^<]+)<\/a>/gi, each pushed
\* as [text](url).
extractResourceLinks(body) ==
    LET matches == SelectSeq(body, LAMBDA piece : piece.kind = "anchor")
    IN  [i \in DOMAIN matches |-> [text |-> matches[i].text, url |-> matches[i].url]]

\* resources: links.length > 0 ? links : undefined, as <<>> or <<links>>
resourcesOf(links) == IF Len(links) > 0 THEN <<links>> ELSE <<>>

\* headerMatch ? headerMatch[1].toLowerCase().includes('required') : true
isRequired(label) ==
    IF label # <<>>
    THEN includesText(toLowerCase(label[1]), <<"r", "e", "q", "u", "i", "r", "e", "d">>)
    ELSE TRUE

\* requiredMatch ? requiredMatch[1] === 'true' : true, where the attribute
\* matches only with the value true or false.
dataRequired(label) ==
    IF label # <<>> /\ label[1] \in {<<"t", "r", "u", "e">>, <<"f", "a", "l", "s", "e">>}
    THEN label[1] = <<"t", "r", "u", "e">>
    ELSE TRUE

\* Variant: a step without links has an empty list of resources.
parseStepMarkdownEmptyList(file) ==
    [id |-> fileId(file), isMarkdown |-> TRUE, required |-> isRequired(file.label),
     resources |-> <<extractMarkdownLinks(file.body)>>]

parseStepMarkdown(file) ==
    [id |-> fileId(file), isMarkdown |-> TRUE, required |-> isRequired(file.label),
     resources |-> resourcesOf(extractMarkdownLinks(file.body))]

parseStepHTML(file) ==
    [id |-> fileId(file), isMarkdown |-> FALSE, required |-> dataRequired(file.label),
     resources |-> resourcesOf(extractResourceLinks(file.body))]

\* One loop of loadSteps over files of one kind: a document whose read
\* throws is logged and passed over.
RECURSIVE mapSeq(_, _)
mapSeq(s, isMd) ==
    IF s = <<>> THEN <<>>
    ELSE (IF ~Head(s).readable THEN <<>>
          ELSE <<IF isMd THEN parseStepMarkdown(Head(s)) ELSE parseStepHTML(Head(s))>>)
         \o mapSeq(Tail(s), isMd)

\* Variant: the HTML documents are loaded whatever the Markdown documents are.
loadStepsBoth(dir) ==
    IF dir = NoDirectory THEN <<>>
    ELSE
    LET markdownFiles == SelectSeq(dir, LAMBDA f : f.ext = "md")
        htmlFiles     == SelectSeq(dir, LAMBDA f : f.ext = "html")
    IN  mapSeq(markdownFiles, TRUE) \o mapSeq(htmlFiles, FALSE)

\* Variant: a directory that cannot be listed is replaced by the listing of
\* one default document.
loadStepsOrDefault(dir) ==
    LET listed        == IF dir = NoDirectory THEN <<StepFile(<<1>>, "welcome", "md")>> ELSE dir
        markdownFiles == SelectSeq(listed, LAMBDA f : f.ext = "md")
        mdSteps       == mapSeq(markdownFiles, TRUE)
        stepIds       == {mdSteps[i].id : i \in DOMAIN mdSteps}
        htmlFiles     == SelectSeq(listed, LAMBDA f : f.ext = "html")
        accepted      == SelectSeq(htmlFiles, LAMBDA f : fileId(f) \notin stepIds)
    IN  mdSteps \o mapSeq(accepted, FALSE)

\* Variant: one document that cannot be read ends the load like a directory
\* that cannot be listed.
loadStepsAllOrNothing(dir) ==
    IF dir = NoDirectory \/ \E i \in DOMAIN dir : ~dir[i].readable THEN <<>>
    ELSE
    LET markdownFiles == SelectSeq(dir, LAMBDA f : f.ext = "md")
        mdSteps       == mapSeq(markdownFiles, TRUE)
        stepIds       == {mdSteps[i].id : i \in DOMAIN mdSteps}
        htmlFiles     == SelectSeq(dir, LAMBDA f : f.ext = "html")
        accepted      == SelectSeq(htmlFiles, LAMBDA f : fileId(f) \notin stepIds)
    IN  mdSteps \o mapSeq(accepted, FALSE)

\* Markdown documents first; an HTML document only when no Markdown document
\* has claimed its id.  A directory that cannot be listed gives no steps.
loadSteps(dir) ==
    IF dir = NoDirectory THEN <<>>
    ELSE
    LET markdownFiles == SelectSeq(dir, LAMBDA f : f.ext = "md")
        mdSteps       == mapSeq(markdownFiles, TRUE)
        stepIds       == {mdSteps[i].id : i \in DOMAIN mdSteps}
        htmlFiles     == SelectSeq(dir, LAMBDA f : f.ext = "html")
        accepted      == SelectSeq(htmlFiles, LAMBDA f : fileId(f) \notin stepIds)
    IN  mdSteps \o mapSeq(accepted, FALSE)

\* Stable insertion of step x into a list sorted ascending by id.
RECURSIVE insertById(_, _)
insertById(x, sorted) ==
    IF sorted = <<>> THEN <<x>>
    ELSE IF Head(sorted).id > x.id THEN <<x>> \o sorted
    ELSE <<Head(sorted)>> \o insertById(x, Tail(sorted))

\* steps.sort((a, b) => a.id - b.id)
RECURSIVE sortById(_)
sortById(steps) ==
    IF steps = <<>> THEN <<>>
    ELSE insertById(steps[Len(steps)], sortById(SubSeq(steps, 1, Len(steps) - 1)))

\* Variant: the loaded steps are returned in directory order, not sorted.
loadConfigurationUnsorted(dir) == [steps |-> loadSteps(dir)]

loadConfiguration(dir) == [steps |-> sortById(loadSteps(dir))]

getAllSteps(dir) == loadConfiguration(dir).steps

\* config.steps.find(step => step.id === stepId) || null, as <<>> or <<step>>
getStep(dir, stepId) ==
    LET steps == loadConfiguration(dir).steps
        hits  == SelectSeq(steps, LAMBDA s : s.id = stepId)
    IN  IF hits = <<>> THEN <<>> ELSE <<Head(hits)>>

(***************************************************************************)
(* State                                                                   *)
(***************************************************************************)
VARIABLES
    stepsDir,         \* config/steps as fs.readdir lists it (fixed)
    caseSensitiveFs,  \* whether the file system tells A@x.y.json from a@x.y.json
    env,              \* process.env: email, USERNAME, USERDOMAIN (fixed)
    now,              \* the clock read by new Date() and Date.now()
    files,            \* data/employees: file name without ".json" -> profile
    progressIndex,    \* data/employees/progress-index.json, <<>> while absent
    unreadable,       \* the profile files that fs.readFile or JSON.parse rejects
    writesLeft,       \* the writes the storage accepts before it fails, -1: no limit
    pending,          \* the complete_step invocation suspended at an await, or <<>>
    last              \* the tool call handled last and its response

vars == <<stepsDir, caseSensitiveFs, env, now, files, progressIndex,
          unreadable, writesLeft, pending, last>>

(***************************************************************************)
(* EmployeeIdentifier: the profile store                                   *)
(***************************************************************************)
\* The keys of a stepData record whose value can be undefined.
OptionalKeys == {"notes", "data", "deviceType", "managerEmail"}

\* JSON.stringify leaves out the keys whose value is undefined.
dropUndefined(rec) ==
    [k \in {j \in DOMAIN rec : ~(j \in OptionalKeys /\ rec[j] = undefined)} |-> rec[k]]

\* JSON.parse(JSON.stringify(profile, null, 2))
jsonRoundTrip(profile) ==
    [profile EXCEPT !.stepData = [k \in DOMAIN @ |-> dropUndefined(@[k])]]

\* The name under which the file system finds fileName, <<>> when no file.
resolveFile(fs, sensitive, fileName) ==
    LET hits == IF sensitive
                THEN {f \in DOMAIN fs : f = fileName}
                ELSE {f \in DOMAIN fs : toLowerCase(f) = toLowerCase(fileName)}
    IN  IF hits = {} THEN <<>> ELSE CHOOSE f \in hits : TRUE

\* fs.readdir(dataPath) without progress-index.json, in directory order.
RECURSIVE readdirFrom(_, _)
readdirFrom(names, order) ==
    IF order = <<>> THEN <<>>
    ELSE (IF Head(order) \in names THEN <<Head(order)>> ELSE <<>>)
         \o readdirFrom(names, Tail(order))

\* Stable insertion of x into a list sorted by lastUpdated, newest first.
RECURSIVE insertByRecency(_, _)
insertByRecency(x, sorted) ==
    IF sorted = <<>> THEN <<x>>
    ELSE IF Head(sorted).lastUpdated < x.lastUpdated THEN <<x>> \o sorted
    ELSE <<Head(sorted)>> \o insertByRecency(x, Tail(sorted))

\* profiles.sort((a, b) => new Date(b.lastUpdated) - new Date(a.lastUpdated))
RECURSIVE sortByRecency(_)
sortByRecency(entries) ==
    IF entries = <<>> THEN <<>>
    ELSE insertByRecency(entries[Len(entries)],
                         sortByRecency(SubSeq(entries, 1, Len(entries) - 1)))

\* Stable insertion of profile x into a list sorted by metadata.lastUpdated,
\* newest first.
RECURSIVE insertProfileByRecency(_, _)
insertProfileByRecency(x, sorted) ==
    IF sorted = <<>> THEN <<x>>
    ELSE IF Head(sorted).metadata.lastUpdated < x.metadata.lastUpdated THEN <<x>> \o sorted
    ELSE <<Head(sorted)>> \o insertProfileByRecency(x, Tail(sorted))

\* profiles.sort((a, b) => new Date(b.metadata.lastUpdated) - new Date(a.metadata.lastUpdated))
RECURSIVE sortProfilesByRecency(_)
sortProfilesByRecency(profiles) ==
    IF profiles = <<>> THEN <<>>
    ELSE insertProfileByRecency(profiles[Len(profiles)],
                                sortProfilesByRecency(SubSeq(profiles, 1, Len(profiles) - 1)))

\* The emails the tools are called with, and the identities of the environment.
aliceLower == <<"a", "@", "x", ".", "y">>
aliceMixed == <<"A", "@", "x", ".", "y">>
bobLower   == <<"b", "_", "c", "@", "x", ".", "y">>
domainMail == <<"d", "@", "x", ".", "c", "o", "m">>
dotMail    == <<"j", "o", ".", "d", "@", "x", ".", "y">>
bothMail   == <<"j", "o", ".", "d", "_", "e", "@", "x", ".", "y">>

EmailArgs == {<<>>, aliceLower, aliceMixed}

\* The emails a tool call can name explicitly.
NamedEmails == EmailArgs \ {<<>>}

\* The order in which fs.readdir lists the profile files.
DirOrder == <<aliceLower, bobLower, domainMail, dotMail, bothMail>>

NoEnv     == [email |-> <<>>, username |-> <<>>, domain |-> <<>>]
MailEnv   == [email |-> aliceMixed, username |-> <<"d">>, domain |-> <<"X">>]
DomainEnv == [email |-> <<>>, username |-> <<"d">>, domain |-> <<"X">>]

NoProfile == [email |-> <<>>]

\* The storage as a handler sees it while it runs: the profile files, the
\* index, the names of the files that cannot be read, the writes the storage
\* still accepts, and whether a write has thrown.
Store(fs, index) ==
    [files |-> fs, index |-> index, unreadable |-> unreadable,
     writes |-> writesLeft, failed |-> FALSE]

\* The writes left once one more has succeeded.
spend(writes) == IF writes > 0 THEN writes - 1 ELSE writes

\* Variant: the entries of the summary are left in directory order.
indexOfUnsorted(fs, bad, t) ==
    LET names   == readdirFrom(DOMAIN fs \ bad, DirOrder)
        entries == [i \in DOMAIN names |->
                       [email       |-> fs[names[i]].email,
                        currentStep |-> fs[names[i]].currentStep,
                        lastUpdated |-> fs[names[i]].metadata.lastUpdated]]
    IN  <<[updatedAt      |-> t,
           totalEmployees |-> Len(entries),
           profiles       |-> entries]>>

\* The summary written to progress-index.json from the profile files that
\* can be read and parsed.
indexOf(fs, bad, t) ==
    LET names   == readdirFrom(DOMAIN fs \ bad, DirOrder)
        entries == [i \in DOMAIN names |->
                       [email       |-> fs[names[i]].email,
                        currentStep |-> fs[names[i]].currentStep,
                        lastUpdated |-> fs[names[i]].metadata.lastUpdated]]
    IN  <<[updatedAt      |-> t,
           totalEmployees |-> Len(entries),
           profiles       |-> sortByRecency(entries)]>>

\* Rewrites the index; a failure to write it is caught and only logged.
updateProgressIndex(store, t) ==
    IF store.writes = 0 THEN store
    ELSE [store EXCEPT !.index = indexOf(store.files, store.unreadable, t),
                       !.writes = spend(@)]

\* Variant: the profile is written with the lastUpdated it has.
saveEmployeeProfileUnstamped(store, sensitive, profile, t) ==
    LET existing == resolveFile(store.files, sensitive, profile.email)
        target   == IF existing = <<>> THEN profile.email ELSE existing
        written  == [f \in DOMAIN store.files \cup {target} |->
                        IF f = target THEN jsonRoundTrip(profile) ELSE store.files[f]]
    IN  IF store.failed THEN store
        ELSE IF store.writes = 0 THEN [store EXCEPT !.failed = TRUE]
        ELSE updateProgressIndex([store EXCEPT !.files = written,
                                               !.unreadable = @ \ {target},
                                               !.writes = spend(@)], t)

\* Writes profile to <profile.email>.json with lastUpdated refreshed, then
\* rewrites the index.  A write that the storage refuses throws; nothing
\* runs in a handler after a throw.
saveEmployeeProfile(store, sensitive, profile, t) ==
    LET stamped  == [profile EXCEPT !.metadata.lastUpdated = t]
        existing == resolveFile(store.files, sensitive, profile.email)
        target   == IF existing = <<>> THEN profile.email ELSE existing
        written  == [f \in DOMAIN store.files \cup {target} |->
                        IF f = target THEN jsonRoundTrip(stamped) ELSE store.files[f]]
    IN  IF store.failed THEN store
        ELSE IF store.writes = 0 THEN [store EXCEPT !.failed = TRUE]
        ELSE updateProgressIndex([store EXCEPT !.files = written,
                                               !.unreadable = @ \ {target},
                                               !.writes = spend(@)], t)

newProfile(email, info, t) ==
    [email          |-> toLowerCase(email),
     name           |-> IF info.name # <<>> THEN info.name
                        ELSE extractNameFromEmail(email),
     startDate      |-> t,
     buddyEmail     |-> info.buddyEmail,
     department     |-> info.department,
     currentStep    |-> 1,
     completedSteps |-> <<>>,
     stepData       |-> <<>>,
     metadata       |-> [createdAt |-> t, lastUpdated |-> t, version |-> "1.0"]]

\* Builds a new profile for email and saves it, whatever is stored already.
createNewProfile(store, sensitive, email, info, t) ==
    LET profile == newProfile(email, info, t)
    IN  [profile |-> profile,
         store   |-> saveEmployeeProfile(store, sensitive, profile, t)]

\* Variant: the profiles are returned in directory order.
getAllProfilesUnsorted(fs, bad) ==
    LET names == readdirFrom(DOMAIN fs \ bad, DirOrder)
    IN  [i \in DOMAIN names |-> fs[names[i]]]

\* Every profile file that can be read and parsed, most recently updated
\* first; no profile when the directory cannot be listed.
getAllProfiles(fs, bad) ==
    LET names == readdirFrom(DOMAIN fs \ bad, DirOrder)
    IN  sortProfilesByRecency([i \in DOMAIN names |-> fs[names[i]]])

\* Variant: when nothing identifies the caller a fixed address is assumed.
getCurrentEmployeeEmailAssumed(fs, environment) ==
    LET jsonFiles == readdirFrom(DOMAIN fs, DirOrder)
    IN  IF environment.email # <<>> /\ isValidEmail(environment.email)
        THEN toLowerCase(environment.email)
        ELSE IF Len(jsonFiles) = 1
        THEN jsonFiles[1]
        ELSE domainMail

\* The email of the caller, or <<>> where the code throws REGISTRATION_REQUIRED.
getCurrentEmployeeEmail(fs, environment) ==
    LET username == environment.username
        domain   == environment.domain
        possibleEmails ==
            << username \o <<"@">> \o toLowerCase(domain) \o <<".", "c", "o", "m">>,
               username \o <<"@">> \o toLowerCase(domain)
                        \o <<".", "o", "n", "m", "i", "c", "r", "o", "s", "o", "f", "t",
                             ".", "c", "o", "m">>,
               username \o <<"@", "c", "o", "m", "p", "a", "n", "y", ".", "c", "o", "m">> >>
        valid     == SelectSeq(possibleEmails, isValidEmail)
        jsonFiles == readdirFrom(DOMAIN fs, DirOrder)
    IN  IF environment.email # <<>> /\ isValidEmail(environment.email)
        THEN toLowerCase(environment.email)
        ELSE IF username # <<>> /\ domain # <<>> /\ domain # username /\ valid # <<>>
        THEN Head(valid)
        ELSE IF Len(jsonFiles) = 1
        THEN jsonFiles[1]
        ELSE <<>>

NoInfo == [name |-> <<>>, buddyEmail |-> undefined, department |-> undefined]

\* Variant: the new profile is returned without being saved.
getEmployeeProfileUnsaved(store, sensitive, environment, email, t) ==
    LET employeeEmail == IF email # <<>> THEN email
                         ELSE getCurrentEmployeeEmail(store.files, environment)
        found         == resolveFile(store.files, sensitive, employeeEmail)
    IN  IF employeeEmail = <<>>
        THEN [thrown |-> TRUE, created |-> FALSE, profile |-> NoProfile, store |-> store]
        ELSE IF found # <<>> /\ found \notin store.unreadable
        THEN [thrown |-> FALSE, created |-> FALSE,
              profile |-> store.files[found], store |-> store]
        ELSE [thrown |-> FALSE, created |-> TRUE,
              profile |-> newProfile(employeeEmail, NoInfo, t), store |-> store]

\* Variant: a profile that is read is saved again, which stamps it.
getEmployeeProfileTouching(store, sensitive, environment, email, t) ==
    LET employeeEmail == IF email # <<>> THEN email
                         ELSE getCurrentEmployeeEmail(store.files, environment)
        found         == resolveFile(store.files, sensitive, employeeEmail)
    IN  IF employeeEmail = <<>>
        THEN [thrown |-> TRUE, created |-> FALSE, profile |-> NoProfile, store |-> store]
        ELSE IF found # <<>> /\ found \notin store.unreadable
        THEN [thrown |-> FALSE, created |-> FALSE,
              profile |-> store.files[found],
              store |-> saveEmployeeProfile(store, sensitive, store.files[found], t)]
        ELSE LET made == createNewProfile(store, sensitive, employeeEmail, NoInfo, t)
             IN  [thrown |-> FALSE, created |-> TRUE,
                  profile |-> made.profile, store |-> made.store]

\* Get or create: the profile read from <email>.json, or a new one when the
\* file cannot be read.
getEmployeeProfile(store, sensitive, environment, email, t) ==
    LET employeeEmail == IF email # <<>> THEN email
                         ELSE getCurrentEmployeeEmail(store.files, environment)
        found         == resolveFile(store.files, sensitive, employeeEmail)
    IN  IF employeeEmail = <<>>
        THEN [thrown |-> TRUE, created |-> FALSE, profile |-> NoProfile, store |-> store]
        ELSE IF found # <<>> /\ found \notin store.unreadable
        THEN [thrown |-> FALSE, created |-> FALSE,
              profile |-> store.files[found], store |-> store]
        ELSE LET made == createNewProfile(store, sensitive, employeeEmail, NoInfo, t)
             IN  [thrown |-> FALSE, created |-> TRUE,
                  profile |-> made.profile, store |-> made.store]

(***************************************************************************)
(* OnboardingMCPServer: the tool handlers                                  *)
(***************************************************************************)
\* The step documents the server can be configured with.
RepoSteps == << StepFile(<<1>>, "project-resources", "md"),
                StepFile(<<2>>, "first-pr", "md"),
                StepFile(<<3>>, "saw-device", "md") >>

GapSteps  == << StepFile(<<4>>, "wrap-up", "md"),
                StepFile(<<1>>, "accounts", "html"),
                StepFile(<<2>>, "saw-device", "md") >>

StepDirs == {RepoSteps, GapSteps}

Envs == {NoEnv, MailEnv, DomainEnv}

\* args.stepId: <<>> when omitted, <<n>> for the number n.
StepIdArgs == {<<>>} \cup {<<n>> : n \in 0..MaxStepArg}

Infos == { NoInfo,
           [name |-> <<"Z", "o", "e">>, buddyEmail |-> "buddy@x.y", department |-> "eng"] }

CompletionArgs == { [notes |-> "done", data |-> undefined] }

DeviceTypes == {"laptop", "desktop"}

ManagerEmails == {"boss@x.y"}

\* The response to a tool call: the tool, the outcome its text reports, the
\* isError flag, the id of the step the text presents (<<>> for none) and the
\* emails of the profiles the text lists.
NoCall == [tool |-> "none", status |-> "none", isError |-> FALSE, upcoming |-> <<>>,
           listed |-> <<>>, steps |-> <<>>]

\* The ids of the steps named by a <<>>-or-<<step>> result.
stepIdOf(found) == IF found = <<>> THEN <<>> ELSE <<found[1].id>>

\* Variant: REGISTRATION_REQUIRED is answered like every other error.
registrationRequiredAsError(tool) ==
    [NoCall EXCEPT !.tool = tool, !.status = "RegistrationRequired", !.isError = TRUE]

\* The catch of the CallToolRequest handler for REGISTRATION_REQUIRED.
registrationRequired(tool) ==
    [NoCall EXCEPT !.tool = tool, !.status = "RegistrationRequired"]

\* The catch of the CallToolRequest handler for every other error.
failure(tool) ==
    [NoCall EXCEPT !.tool = tool, !.status = "Error", !.isError = TRUE]

\* The storage is as the handler leaves it.
storageAfter(store) ==
    /\ files' = store.files
    /\ progressIndex' = store.index
    /\ unreadable' = store.unreadable
    /\ writesLeft' = store.writes

Init ==
    /\ stepsDir \in StepDirs
    /\ caseSensitiveFs \in BOOLEAN
    /\ env = NoEnv
    /\ now = 0
    /\ files = <<>>
    /\ progressIndex = <<>>
    /\ unreadable = {}
    /\ writesLeft = -1
    /\ pending = <<>>
    /\ last = NoCall

Tick ==
    /\ now < MaxTime
    /\ now' = now + 1
    /\ UNCHANGED <<stepsDir, caseSensitiveFs, env, files, progressIndex,
                   unreadable, writesLeft, pending, last>>

\* start_onboarding
handleStartOnboarding(email, info) ==
    LET store == Store(files, progressIndex)
        got   == IF email # <<>>
                 THEN LET made == createNewProfile(store, caseSensitiveFs, email, info, now)
                      IN  [thrown |-> FALSE, created |-> TRUE,
                           profile |-> made.profile, store |-> made.store]
                 ELSE getEmployeeProfile(store, caseSensitiveFs, env, <<>>, now)
    IN  /\ storageAfter(got.store)
        /\ last' = IF got.thrown
                   THEN registrationRequired("start_onboarding")
                   ELSE IF got.store.failed
                   THEN failure("start_onboarding")
                   ELSE [NoCall EXCEPT
                            !.tool = "start_onboarding", !.status = "Welcome",
                            !.upcoming = stepIdOf(getStep(stepsDir, got.profile.currentStep))]
        /\ UNCHANGED <<stepsDir, caseSensitiveFs, env, now, pending>>

\* register_employee
handleRegisterEmployee(email, info) ==
    LET store == Store(files, progressIndex)
        made  == createNewProfile(store, caseSensitiveFs, email, info, now)
    IN  /\ IF email = <<>> \/ info.name = <<>>
           THEN /\ UNCHANGED <<files, progressIndex, unreadable, writesLeft>>
                /\ last' = failure("register_employee")
           ELSE /\ storageAfter(made.store)
                /\ last' = IF made.store.failed
                           THEN failure("register_employee")
                           ELSE [NoCall EXCEPT
                                    !.tool = "register_employee", !.status = "Registered"]
        /\ UNCHANGED <<stepsDir, caseSensitiveFs, env, now, pending>>

\* get_current_step
handleGetCurrentStep(email) ==
    LET got == getEmployeeProfile(Store(files, progressIndex), caseSensitiveFs, env, email, now)
    IN  /\ storageAfter(got.store)
        /\ last' = IF got.thrown
                   THEN registrationRequired("get_current_step")
                   ELSE IF got.store.failed
                   THEN failure("get_current_step")
                   ELSE [NoCall EXCEPT
                            !.tool = "get_current_step", !.status = "CurrentStep",
                            !.upcoming = stepIdOf(getStep(stepsDir, got.profile.currentStep))]
        /\ UNCHANGED <<stepsDir, caseSensitiveFs, env, now, pending>>

\* get_progress
handleGetProgress(email) ==
    LET got == getEmployeeProfile(Store(files, progressIndex), caseSensitiveFs, env, email, now)
    IN  /\ storageAfter(got.store)
        /\ last' = IF got.thrown
                   THEN registrationRequired("get_progress")
                   ELSE IF got.store.failed
                   THEN failure("get_progress")
                   ELSE [NoCall EXCEPT !.tool = "get_progress", !.status = "Progress"]
        /\ UNCHANGED <<stepsDir, caseSensitiveFs, env, now, pending>>

\* Variant: the search accepts the completed step itself (>= for >).
findNextStepInclusive(allSteps, stepToComplete) ==
    LET later == SelectSeq(allSteps, LAMBDA s : s.id >= stepToComplete)
    IN  IF later = <<>> THEN <<>> ELSE <<Head(later)>>

\* allSteps.find(step => step.id > stepToComplete), as <<>> or <<step>>
findNextStep(allSteps, stepToComplete) ==
    LET later == SelectSeq(allSteps, LAMBDA s : s.id > stepToComplete)
    IN  IF later = <<>> THEN <<>> ELSE <<Head(later)>>

\* Variant: the record of the completed step is written without completedAt.
completeProfileUndated(profile, stepToComplete, args, allSteps, t) ==
    LET nextStep == findNextStep(allSteps, stepToComplete)
        record   == [notes |-> args.notes, data |-> args.data]
    IN  [profile EXCEPT
            !.completedSteps = Append(@, stepToComplete),
            !.stepData = [k \in DOMAIN @ \cup {stepToComplete} |->
                             IF k = stepToComplete THEN record ELSE @[k]],
            !.currentStep = IF nextStep # <<>> THEN nextStep[1].id
                            ELSE stepToComplete + 1]

\* Variant: the current step moves on by two ids whatever steps there are.
completeProfileSkipping(profile, stepToComplete, args, allSteps, t) ==
    LET record == [completedAt |-> t, notes |-> args.notes, data |-> args.data]
    IN  [profile EXCEPT
            !.completedSteps = Append(@, stepToComplete),
            !.stepData = [k \in DOMAIN @ \cup {stepToComplete} |->
                             IF k = stepToComplete THEN record ELSE @[k]],
            !.currentStep = stepToComplete + 2]

\* The profile as handleCompleteStep changes it before saving it.
completeProfile(profile, stepToComplete, args, allSteps, t) ==
    LET nextStep == findNextStep(allSteps, stepToComplete)
        record   == [completedAt |-> t, notes |-> args.notes, data |-> args.data]
    IN  [profile EXCEPT
            !.completedSteps = Append(@, stepToComplete),
            !.stepData = [k \in DOMAIN @ \cup {stepToComplete} |->
                             IF k = stepToComplete THEN record ELSE @[k]],
            !.currentStep = IF nextStep # <<>> THEN nextStep[1].id
                            ELSE stepToComplete + 1]

\* Variant: the check against the current step is missing.
validateStepAnyOrder(profile, stepToComplete) ==
    IF stepToComplete \in Range(profile.completedSteps) THEN "AlreadyCompleted"
    ELSE "Completed"

\* Variant: every step id is accepted.
validateStepAlways(profile, stepToComplete) == "Completed"

\* The validation of handleCompleteStep: the outcome for stepToComplete.
validateStep(profile, stepToComplete) ==
    IF stepToComplete \in Range(profile.completedSteps) THEN "AlreadyCompleted"
    ELSE IF stepToComplete # profile.currentStep THEN "OutOfOrder"
    ELSE "Completed"

\* Variant: an omitted step id stands for the first step.
stepToCompleteFirst(stepId, profile) ==
    IF stepId = <<>> \/ stepId[1] = 0 THEN 1 ELSE stepId[1]

\* args.stepId || profile.currentStep
stepToCompleteOf(stepId, profile) ==
    IF stepId = <<>> \/ stepId[1] = 0 THEN profile.currentStep ELSE stepId[1]

\* Variant: a step that is turned down is thrown to the dispatch layer.
validationResultThrown(outcome) ==
    [NoCall EXCEPT !.tool = "complete_step", !.status = "Error", !.isError = TRUE]

\* The response of complete_step for a step that is turned down.
validationResult(outcome) ==
    [NoCall EXCEPT !.tool = "complete_step", !.status = outcome]

\* complete_step
handleCompleteStep(email, stepId, args) ==
    LET got     == getEmployeeProfile(Store(files, progressIndex), caseSensitiveFs, env, email, now)
        profile == got.profile
        stepToComplete == stepToCompleteOf(stepId, profile)
        outcome == validateStep(profile, stepToComplete)
        done    == completeProfile(profile, stepToComplete, args,
                                   getAllSteps(stepsDir), now)
        saved   == saveEmployeeProfile(got.store, caseSensitiveFs, done, now)
    IN  /\ IF got.thrown
           THEN /\ UNCHANGED <<files, progressIndex, unreadable, writesLeft>>
                /\ last' = registrationRequired("complete_step")
           ELSE IF got.store.failed
           THEN /\ storageAfter(got.store)
                /\ last' = failure("complete_step")
           ELSE IF outcome # "Completed"
           THEN /\ storageAfter(got.store)
                /\ last' = validationResult(outcome)
           ELSE /\ done.currentStep <= MaxCurrentStep  \* bound of the model
                /\ storageAfter(saved)
                /\ last' = IF saved.failed
                           THEN failure("complete_step")
                           ELSE [NoCall EXCEPT
                                    !.tool = "complete_step", !.status = "Completed",
                                    !.upcoming = stepIdOf(getStep(stepsDir, done.currentStep))]
        /\ UNCHANGED <<stepsDir, caseSensitiveFs, env, now, pending>>

\* The step whose record request_saw_device writes to.
SawStep == 2

\* Variant: the record of the step is replaced by the request fields.
sawProfileReplacing(profile, deviceType, managerEmail, t) ==
    [profile EXCEPT
        !.stepData = [k \in DOMAIN @ \cup {SawStep} |->
                         IF k = SawStep
                         THEN [sawRequestId |-> [prefix |-> "SAW-", ms |-> t],
                               deviceType   |-> deviceType,
                               managerEmail |-> managerEmail,
                               requestedAt  |-> t]
                         ELSE @[k]]]

\* Variant: the request also moves the profile on to the step after SawStep.
sawProfileAdvancing(profile, deviceType, managerEmail, t) ==
    [sawProfileReplacing(profile, deviceType, managerEmail, t) EXCEPT
        !.currentStep = SawStep + 1]

\* The profile as handleRequestSAWDevice changes it before saving it.
sawProfile(profile, deviceType, managerEmail, t) ==
    LET before == IF SawStep \in DOMAIN profile.stepData
                  THEN profile.stepData[SawStep] ELSE <<>>
        fields == [sawRequestId |-> [prefix |-> "SAW-", ms |-> t],
                   deviceType   |-> deviceType,
                   managerEmail |-> managerEmail,
                   requestedAt  |-> t]
        record == [k \in DOMAIN before \cup DOMAIN fields |->
                      IF k \in DOMAIN fields THEN fields[k] ELSE before[k]]
    IN  [profile EXCEPT
            !.stepData = [k \in DOMAIN @ \cup {SawStep} |->
                             IF k = SawStep THEN record ELSE @[k]]]

\* request_saw_device
handleRequestSAWDevice(email, deviceType, managerEmail) ==
    LET got   == getEmployeeProfile(Store(files, progressIndex), caseSensitiveFs, env, email, now)
        saved == saveEmployeeProfile(got.store, caseSensitiveFs,
                                     sawProfile(got.profile, deviceType, managerEmail, now), now)
    IN  /\ IF got.thrown
           THEN /\ UNCHANGED <<files, progressIndex, unreadable, writesLeft>>
                /\ last' = registrationRequired("request_saw_device")
           ELSE /\ storageAfter(saved)
                /\ last' = IF saved.failed
                           THEN failure("request_saw_device")
                           ELSE [NoCall EXCEPT
                                    !.tool = "request_saw_device", !.status = "Requested"]
        /\ UNCHANGED <<stepsDir, caseSensitiveFs, env, now, pending>>

Next ==
    \/ Tick
    \/ \E email \in EmailArgs, info \in Infos : handleStartOnboarding(email, info)
    \/ \E email \in EmailArgs, info \in Infos : handleRegisterEmployee(email, info)
    \/ \E email \in EmailArgs : handleGetCurrentStep(email)
    \/ \E email \in EmailArgs : handleGetProgress(email)
    \/ \E email \in EmailArgs, stepId \in StepIdArgs, args \in CompletionArgs :
           handleCompleteStep(email, stepId, args)
    \/ \E email \in EmailArgs, deviceType \in DeviceTypes, managerEmail \in ManagerEmails :
           handleRequestSAWDevice(email, deviceType, managerEmail)

Spec == Init /\ [][Next]_vars

\* get_all_steps: the text lists every step of the configuration in turn.
handleGetAllSteps ==
    LET steps == getAllSteps(stepsDir)
    IN  /\ last' = [NoCall EXCEPT
                       !.tool = "get_all_steps", !.status = "AllSteps",
                       !.upcoming = [i \in DOMAIN steps |-> steps[i].id],
                       !.steps = steps]
        /\ UNCHANGED <<stepsDir, caseSensitiveFs, env, now, files, progressIndex,
                       unreadable, writesLeft, pending>>

\* args.buddyEmail of get_employee_list: undefined when omitted.
BuddyArgs == {undefined, "buddy@x.y", "other@x.y"}

\* get_employee_list
handleGetEmployeeList(buddyEmail) ==
    LET profiles == getAllProfiles(files, unreadable)
        filteredProfiles ==
            IF buddyEmail # undefined
            THEN SelectSeq(profiles, LAMBDA p : p.buddyEmail = buddyEmail)
            ELSE profiles
    IN  /\ last' = [NoCall EXCEPT
                       !.tool = "get_employee_list",
                       !.status = IF filteredProfiles = <<>> THEN "NoEmployees"
                                  ELSE "EmployeeList",
                       !.listed = [i \in DOMAIN filteredProfiles |-> filteredProfiles[i].email]]
        /\ UNCHANGED <<stepsDir, caseSensitiveFs, env, now, files, progressIndex,
                       unreadable, writesLeft, pending>>

(***************************************************************************)
(* Several employees.  Two employees use the server, which runs with or    *)
(* without an email in its environment; calls may leave the email out.     *)
(***************************************************************************)
TeamEmails == {<<>>, aliceLower, bobLower}

InitTeam ==
    /\ stepsDir = RepoSteps
    /\ caseSensitiveFs = TRUE
    /\ env \in {NoEnv, MailEnv}
    /\ now = 0
    /\ files = <<>>
    /\ progressIndex = <<>>
    /\ unreadable = {}
    /\ writesLeft = -1
    /\ pending = <<>>
    /\ last = NoCall

NextTeam ==
    \/ Tick
    \/ \E email \in TeamEmails, info \in Infos : handleRegisterEmployee(email, info)
    \/ handleStartOnboarding(<<>>, NoInfo)
    \/ \E email \in TeamEmails : handleGetCurrentStep(email)
    \/ handleGetProgress(<<>>)
    \/ \E email \in TeamEmails, stepId \in {<<1>>, <<2>>}, args \in CompletionArgs :
           handleCompleteStep(email, stepId, args)
    \/ handleRequestSAWDevice(<<>>, "laptop", "boss@x.y")
    \/ \E buddyEmail \in BuddyArgs : handleGetEmployeeList(buddyEmail)

SpecTeam == InitTeam /\ [][NextTeam]_vars

(***************************************************************************)
(* Step directories.  The documents of config/steps are written by hand:   *)
(* the server is started on any directory of at most MaxFiles documents    *)
(* taken from StepDocs, in any order fs.readdir may list them.             *)
(***************************************************************************)
StepDocs == { StepFile(<<1>>, "accounts", "md"),
              StepFile(<<1>>, "access", "md"),
              StepFile(<<1>>, "accounts", "html"),
              StepFile(<<2>>, "first-pr", "html"),
              StepFile(<<2>>, "review", "html"),
              StepFile(<<>>, "notes", "md") }

ConfigDirs ==
    {dir \in UNION {[1..n -> StepDocs] : n \in 0..MaxFiles} :
        \A i, j \in DOMAIN dir : i # j => dir[i] # dir[j]}

InitConfig ==
    /\ stepsDir \in ConfigDirs
    /\ caseSensitiveFs = TRUE
    /\ env = NoEnv
    /\ now = 0
    /\ files = <<>>
    /\ progressIndex = <<>>
    /\ unreadable = {}
    /\ writesLeft = -1
    /\ pending = <<>>
    /\ last = NoCall

NextConfig ==
    \/ handleGetAllSteps
    \/ handleStartOnboarding(aliceLower, NoInfo)
    \/ handleGetCurrentStep(aliceLower)
    \/ \E stepId \in {<<>>, <<1>>}, args \in CompletionArgs :
           handleCompleteStep(aliceLower, stepId, args)

SpecConfig == InitConfig /\ [][NextConfig]_vars

(***************************************************************************)
(* Document contents.  The server is started on a directory of at most     *)
(* MaxDocs documents taken from DocPool, or on a directory that cannot be  *)
(* listed; documents differ in what they say about being required, in      *)
(* their links and in whether they can be read.                            *)
(***************************************************************************)
MaxDocs == 2

WikiText == Text("Read the wiki.")

Labels == [Required  |-> <<"R", "e", "q", "u", "i", "r", "e", "d">>,
           Shouted   |-> <<"R", "E", "Q", "U", "I", "R", "E", "D">>,
           Optional  |-> <<"O", "p", "t", "i", "o", "n", "a", "l">>,
           Mandatory |-> <<"M", "a", "n", "d", "a", "t", "o", "r", "y">>]

DocPool ==
    { StepDoc(<<1>>, "accounts", "md", TRUE, <<Labels.Required>>,
              <<WikiText, Link("Wiki", "/wiki"), Link("Faq", "/faq")>>),
      StepDoc(<<1>>, "access", "md", FALSE, <<Labels.Required>>, <<Link("Wiki", "/wiki")>>),
      StepDoc(<<2>>, "first-pr", "md", TRUE, <<Labels.Optional>>, <<WikiText>>),
      StepDoc(<<2>>, "review", "md", TRUE, <<Labels.Mandatory>>,
              <<Link("Faq", "/faq"), WikiText, Link("Wiki", "/wiki")>>),
      StepDoc(<<3>>, "saw-device", "md", TRUE, <<>>, <<>>),
      StepDoc(<<3>>, "laptop", "md", TRUE, <<Labels.Shouted>>, <<Link("Wiki", "/wiki")>>),
      StepDoc(<<1>>, "accounts", "html", TRUE, <<<<"f", "a", "l", "s", "e">>>>,
              <<Anchor("Faq", "/faq"), WikiText, Anchor("Wiki", "/wiki")>>),
      StepDoc(<<2>>, "first-pr", "html", FALSE, <<>>, <<Anchor("Wiki", "/wiki")>>),
      StepDoc(<<3>>, "saw-device", "html", TRUE, <<>>, <<WikiText>>) }

DocDirs ==
    {dir \in UNION {[1..n -> DocPool] : n \in 0..MaxDocs} :
        \A i, j \in DOMAIN dir : i # j => dir[i] # dir[j]}
    \cup {NoDirectory}

InitDocs ==
    /\ stepsDir \in DocDirs
    /\ caseSensitiveFs = TRUE
    /\ env = NoEnv
    /\ now = 0
    /\ files = <<>>
    /\ progressIndex = <<>>
    /\ unreadable = {}
    /\ writesLeft = -1
    /\ pending = <<>>
    /\ last = NoCall

NextDocs ==
    \/ handleGetAllSteps
    \/ handleGetCurrentStep(aliceLower)
    \/ \E args \in CompletionArgs : handleCompleteStep(aliceLower, <<>>, args)

SpecDocs == InitDocs /\ [][NextDocs]_vars

(***************************************************************************)
(* Derived names.  Employees whose emails have a local part without        *)
(* separator, with '_', with '.' and with both call the tools without      *)
(* having registered, so that their profiles are created with a name       *)
(* derived from the email.                                                 *)
(***************************************************************************)
NameEmails == {aliceLower, bobLower, dotMail, bothMail}

InitNames ==
    /\ stepsDir = RepoSteps
    /\ caseSensitiveFs = TRUE
    /\ env = NoEnv
    /\ now = 0
    /\ files = <<>>
    /\ progressIndex = <<>>
    /\ unreadable = {}
    /\ writesLeft = -1
    /\ pending = <<>>
    /\ last = NoCall

NextNames ==
    \/ Tick
    \/ \E email \in NameEmails : handleStartOnboarding(email, NoInfo)
    \/ \E email \in NameEmails : handleGetCurrentStep(email)

SpecNames == InitNames /\ [][NextNames]_vars

(***************************************************************************)
(* Overlapping invocations.  The handlers are async functions: the request *)
(* callback starts one for every request it is given, and a handler gives  *)
(* up control at each await.  complete_step is split at the await between  *)
(* its read of the profile and its write; the other handlers run whole     *)
(* while it is suspended.                                                  *)
(***************************************************************************)
\* complete_step up to its await of ConfigParser.getAllSteps(): the profile is
\* read or created, the step accepted, and the invocation suspended.
beginCompleteStep(email, stepId, args) ==
    LET got     == getEmployeeProfile(Store(files, progressIndex), caseSensitiveFs, env, email, now)
        profile == got.profile
        stepToComplete == stepToCompleteOf(stepId, profile)
    IN  /\ pending = <<>>
        /\ ~got.thrown
        /\ ~got.store.failed
        /\ validateStep(profile, stepToComplete) = "Completed"
        /\ storageAfter(got.store)
        /\ pending' = <<[read |-> profile, stepToComplete |-> stepToComplete,
                         args |-> args, at |-> now]>>
        /\ UNCHANGED <<stepsDir, caseSensitiveFs, env, now, last>>

\* complete_step from that await on: the next step is looked up, the profile
\* object saved and the response sent.
finishCompleteStep ==
    /\ pending # <<>>
    /\ LET p     == pending[1]
           done  == completeProfile(p.read, p.stepToComplete, p.args,
                                    getAllSteps(stepsDir), p.at)
           saved == saveEmployeeProfile(Store(files, progressIndex), caseSensitiveFs, done, now)
       IN  /\ done.currentStep <= MaxCurrentStep  \* bound of the model
           /\ storageAfter(saved)
           /\ last' = IF saved.failed
                      THEN failure("complete_step")
                      ELSE [NoCall EXCEPT
                               !.tool = "complete_step", !.status = "Completed",
                               !.upcoming = stepIdOf(getStep(stepsDir, done.currentStep))]
    /\ pending' = <<>>
    /\ UNCHANGED <<stepsDir, caseSensitiveFs, env, now>>

\* The overlap is explored for one employee and the step documents of the
\* repository.
InitAsync == Init /\ stepsDir = RepoSteps /\ caseSensitiveFs

NextAsync ==
    \/ Tick
    \/ \E stepId \in StepIdArgs, args \in CompletionArgs :
           handleCompleteStep(aliceLower, stepId, args)
    \/ \E deviceType \in DeviceTypes, managerEmail \in ManagerEmails :
           handleRequestSAWDevice(aliceLower, deviceType, managerEmail)
    \/ \E stepId \in StepIdArgs, args \in CompletionArgs :
           beginCompleteStep(aliceLower, stepId, args)
    \/ finishCompleteStep

SpecAsync == InitAsync /\ [][NextAsync]_vars

(***************************************************************************)
(* Overlapping saves.  saveEmployeeProfile awaits the write of the profile *)
(* file and then updateProgressIndex, which awaits its reads of the        *)
(* profile files and then the write of the index.  register_employee is    *)
(* split at these awaits, and requests for different emails are in         *)
(* progress together; pending holds the suspended invocations.             *)
(***************************************************************************)
\* s without its i-th element.
removeAt(s, i) == SubSeq(s, 1, i - 1) \o SubSeq(s, i + 1, Len(s))

\* register_employee up to the await of updateProgressIndex in
\* saveEmployeeProfile: the profile is built, stamped and written.
registerWritesProfile(email, info) ==
    LET profile == newProfile(email, info, now)
        stamped == [profile EXCEPT !.metadata.lastUpdated = now]
    IN  /\ info.name # <<>>
        /\ \A i \in DOMAIN pending : pending[i].email # profile.email
        /\ files' = [f \in DOMAIN files \cup {profile.email} |->
                        IF f = profile.email THEN jsonRoundTrip(stamped) ELSE files[f]]
        /\ pending' = Append(pending, [email |-> profile.email, hasRead |-> FALSE,
                                       seen |-> <<>>])
        /\ UNCHANGED <<stepsDir, caseSensitiveFs, env, now, progressIndex, unreadable,
                       writesLeft, last>>

\* updateProgressIndex up to its write: the directory is listed and the
\* profile files are read.
updateProgressIndexReads(i) ==
    /\ ~pending[i].hasRead
    /\ pending' = [pending EXCEPT ![i].hasRead = TRUE, ![i].seen = files]
    /\ UNCHANGED <<stepsDir, caseSensitiveFs, env, now, files, progressIndex, unreadable,
                   writesLeft, last>>

\* updateProgressIndex from its write on, and the rest of register_employee:
\* the index is written from what was read, and the response sent.
updateProgressIndexWrites(i) ==
    /\ pending[i].hasRead
    /\ progressIndex' = indexOf(pending[i].seen, unreadable, now)
    /\ pending' = removeAt(pending, i)
    /\ last' = [NoCall EXCEPT !.tool = "register_employee", !.status = "Registered"]
    /\ UNCHANGED <<stepsDir, caseSensitiveFs, env, now, files, unreadable, writesLeft>>

InitSaves ==
    /\ stepsDir = RepoSteps
    /\ caseSensitiveFs = TRUE
    /\ env = NoEnv
    /\ now = 0
    /\ files = <<>>
    /\ progressIndex = <<>>
    /\ unreadable = {}
    /\ writesLeft = -1
    /\ pending = <<>>
    /\ last = NoCall

NextSaves ==
    \/ Tick
    \/ \E email \in {aliceLower, bobLower}, info \in Infos : registerWritesProfile(email, info)
    \/ \E i \in 1..2 : i \in DOMAIN pending /\ updateProgressIndexReads(i)
    \/ \E i \in 1..2 : i \in DOMAIN pending /\ updateProgressIndexWrites(i)

SpecSaves == InitSaves /\ [][NextSaves]_vars

(***************************************************************************)
(* Finishing.  One employee starts onboarding once and then keeps calling  *)
(* complete_step without a step id; the server runs on any directory of    *)
(* ConfigDirs.  The client goes on calling as long as the call is          *)
(* possible, which the fairness conditions state.                          *)
(***************************************************************************)
\* start_onboarding with an email, called when nothing is stored yet.
startOnce == files = <<>> /\ handleStartOnboarding(aliceLower, NoInfo)

\* complete_step without a step id.
completeCurrent ==
    files # <<>> /\ \E args \in CompletionArgs : handleCompleteStep(aliceLower, <<>>, args)

NextFinish == startOnce \/ completeCurrent

\* The states in which completeCurrent can take a step: the profile exists
\* and the step after its current one is within the bound of the model.
completeCurrentEnabled ==
    \E f \in DOMAIN files :
        LET above == {getAllSteps(stepsDir)[i].id : i \in DOMAIN getAllSteps(stepsDir)}
                        \cap (files[f].currentStep + 1 .. MaxCurrentStep)
        IN  above # {} \/ files[f].currentStep + 1 <= MaxCurrentStep

\* Weak fairness of both calls; the one of completeCurrent is written out
\* with completeCurrentEnabled for ENABLED <<completeCurrent>>_vars.
SpecFinish ==
    /\ InitConfig /\ [][NextFinish]_vars
    /\ WF_vars(startOnce)
    /\ ([]<>(~completeCurrentEnabled) \/ []<><<completeCurrent>>_vars)

(***************************************************************************)
(* Reading.  Two employees onboard, one of them completes steps, and the   *)
(* tools that only report are called in between, by either of them,        *)
(* without an email or with an email spelled in another case, on either    *)
(* kind of file system.                                                    *)
(***************************************************************************)
ReadEmails == {<<>>, aliceLower, aliceMixed, bobLower}

InitReads ==
    /\ stepsDir = RepoSteps
    /\ caseSensitiveFs \in BOOLEAN
    /\ env = NoEnv
    /\ now = 0
    /\ files = <<>>
    /\ progressIndex = <<>>
    /\ unreadable = {}
    /\ writesLeft = -1
    /\ pending = <<>>
    /\ last = NoCall

NextReads ==
    \/ Tick
    \/ \E email \in {aliceLower, bobLower} : handleStartOnboarding(email, NoInfo)
    \/ \E args \in CompletionArgs : handleCompleteStep(aliceLower, <<>>, args)
    \/ \E email \in ReadEmails : handleGetCurrentStep(email)
    \/ \E email \in ReadEmails : handleGetProgress(email)
    \/ handleGetAllSteps
    \/ \E buddyEmail \in BuddyArgs : handleGetEmployeeList(buddyEmail)

SpecReads == InitReads /\ [][NextReads]_vars

(***************************************************************************)
(* Failing storage.  The file system is outside the program: a profile     *)
(* file can become unreadable or unparsable, and the storage can start to  *)
(* refuse writes (full disk, lost permission) after any number of them.    *)
(***************************************************************************)
\* The content of a profile file stops being readable as a profile.
damageFile(f) ==
    /\ f \in DOMAIN files \ unreadable
    /\ unreadable' = unreadable \cup {f}
    /\ UNCHANGED <<stepsDir, caseSensitiveFs, env, now, files, progressIndex,
                   writesLeft, pending, last>>

\* The storage will accept n more writes and refuse the ones after them.
storageFails(n) ==
    /\ writesLeft = -1
    /\ writesLeft' = n
    /\ UNCHANGED <<stepsDir, caseSensitiveFs, env, now, files, progressIndex,
                   unreadable, pending, last>>

\* The storage accepts writes again.
storageRecovers ==
    /\ writesLeft = 0
    /\ writesLeft' = -1
    /\ UNCHANGED <<stepsDir, caseSensitiveFs, env, now, files, progressIndex,
                   unreadable, pending, last>>

InitFaults == Init /\ stepsDir = RepoSteps /\ caseSensitiveFs

NextFaults ==
    \/ Tick
    \/ \E info \in Infos : handleRegisterEmployee(aliceLower, info)
    \/ handleGetCurrentStep(aliceLower)
    \/ \E stepId \in StepIdArgs, args \in CompletionArgs :
           handleCompleteStep(aliceLower, stepId, args)
    \/ \E f \in Range(DirOrder) : damageFile(f)
    \/ \E n \in 0..MaxWrites : storageFails(n)
    \/ storageRecovers

SpecFaults == InitFaults /\ [][NextFaults]_vars

(***************************************************************************)
(* Properties                                                              *)
(***************************************************************************)
\* The ids of the configured steps.
ConfiguredIds == {getAllSteps(stepsDir)[i].id : i \in DOMAIN getAllSteps(stepsDir)}

\* The smallest configured id above k, and k + 1 when there is none.
ExpectedNext(k) ==
    LET above == {id \in ConfiguredIds : id > k}
    IN  IF above = {} THEN k + 1
        ELSE CHOOSE id \in above : \A other \in above : id <= other

LastOf(seq) == seq[Len(seq)]

\* The profile files that the path <email>.json names: the file of that
\* exact name, or on a file system that ignores case the one that differs
\* from it in case only.
StoredAs(email) ==
    {f \in DOMAIN files :
        IF caseSensitiveFs THEN f = email ELSE toLowerCase(f) = toLowerCase(email)}

\* C1: complete_step with a step id that is neither completed nor the current
\* step of the profile it reads answers OutOfOrder (not an error) and writes
\* nothing: the profile files and the index are as before the call.  When the
\* call finds no profile file and creates the profile first, that new profile
\* is its only write.
C1_OutOfOrderWritesNothing ==
    [][\A email \in NamedEmails, n \in 1..MaxStepArg, args \in CompletionArgs :
          (/\ last'.tool = "complete_step"
           /\ \/ \E f \in StoredAs(email) :
                    n \notin Range(files[f].completedSteps) /\ n # files[f].currentStep
              \/ StoredAs(email) = {} /\ n # 1
           /\ handleCompleteStep(email, <<n>>, args)) =>
              /\ \A f \in StoredAs(email) :
                    (/\ n \notin Range(files[f].completedSteps)
                     /\ n # files[f].currentStep)
                    => /\ last'.status = "OutOfOrder"
                       /\ ~last'.isError
                       /\ files' = files
                       /\ progressIndex' = progressIndex
              /\ (StoredAs(email) = {} /\ n # 1)
                 => /\ last'.status = "OutOfOrder"
                    /\ ~last'.isError
                    /\ DOMAIN files' = DOMAIN files \cup {toLowerCase(email)}
                    /\ files'[toLowerCase(email)].completedSteps = <<>>
                    /\ files'[toLowerCase(email)].currentStep = 1
                    /\ files'[toLowerCase(email)].stepData = <<>>
                    /\ \A f \in DOMAIN files \ {toLowerCase(email)} : files'[f] = files[f]]_vars

\* An out-of-order answer on a profile that already has progress.
C1_Witness ==
    /\ last.tool = "complete_step"
    /\ last.status = "OutOfOrder"
    /\ aliceLower \in DOMAIN files
    /\ files[aliceLower].completedSteps = <<1>>
    /\ files[aliceLower].currentStep = 2

\* C3: after a completion the current step is the smallest configured id
\* above the completed one, or that id plus one when no configured id is
\* above it, and the response presents that next step or none.
C3_NextIsSmallestGreater ==
    /\ \A f \in DOMAIN files :
          files[f].completedSteps # <<>> =>
              files[f].currentStep = ExpectedNext(LastOf(files[f].completedSteps))
    /\ (last.tool = "complete_step" /\ last.status = "Completed") =>
          \E f \in DOMAIN files :
              /\ files[f].completedSteps # <<>>
              /\ last.upcoming = IF files[f].currentStep \in ConfiguredIds
                                 THEN <<files[f].currentStep>> ELSE <<>>
              /\ (last.upcoming = <<>>) =
                     (\A id \in ConfiguredIds : id <= LastOf(files[f].completedSteps))

\* Step 2 completed with a gap above it: the current step jumps to 4.
C3_Witness ==
    /\ stepsDir = GapSteps
    /\ last.status = "Completed"
    /\ last.upcoming = <<4>>
    /\ \E f \in DOMAIN files :
          files[f].completedSteps = <<1, 2>> /\ files[f].currentStep = 4

\* Steps 1, 2, 3 completed in turn: no next step, current step 4.
C3_WitnessDense ==
    /\ stepsDir = RepoSteps
    /\ last.status = "Completed"
    /\ last.upcoming = <<>>
    /\ \E f \in DOMAIN files :
          files[f].completedSteps = <<1, 2, 3>> /\ files[f].currentStep = 4

\* C4: the current step of a stored profile is never among its completed steps.
C4_CurrentStepNotCompleted ==
    \A f \in DOMAIN files : files[f].currentStep \notin Range(files[f].completedSteps)

\* A profile right after a completion, with steps completed.
C4_Witness ==
    /\ last.tool = "complete_step"
    /\ last.status = "Completed"
    /\ \E f \in DOMAIN files : Len(files[f].completedSteps) >= 2

\* C2: once a call has completed step k for an email, every later
\* complete_step for that email and step answers AlreadyCompleted and leaves
\* the stored profile and the index as they are.
C2_RepeatedCompletionIsNoOp ==
    [][\A email \in NamedEmails, n \in 1..MaxStepArg, args \in CompletionArgs :
          (/\ last'.tool = "complete_step"
           /\ handleCompleteStep(email, <<n>>, args)
           /\ toLowerCase(email) \in DOMAIN files
           /\ n \in Range(files[toLowerCase(email)].completedSteps))
          => /\ last'.status = "AlreadyCompleted"
             /\ files' = files
             /\ progressIndex' = progressIndex]_vars

\* The keys request_saw_device writes into the record of step 2.
SawKeys == {"sawRequestId", "deviceType", "managerEmail", "requestedAt"}

\* The keys handleCompleteStep writes into the record of the completed step.
CompletionKeys == {"completedAt", "notes", "data"}

\* Every key in keys of every stepData record of profile before is in the
\* same record of profile after, with the same value.
KeysKept(before, after, keys) ==
    \A k \in DOMAIN before.stepData :
        \A key \in DOMAIN before.stepData[k] \cap keys :
            /\ k \in DOMAIN after.stepData
            /\ key \in DOMAIN after.stepData[k]
            /\ after.stepData[k][key] = before.stepData[k][key]

\* C5: a completion keeps every key the device request had written into the
\* record of the completed step.
C5_CompletionKeepsRequestKeys ==
    [][\A email \in NamedEmails, stepId \in StepIdArgs, args \in CompletionArgs :
          (/\ last'.tool = "complete_step"
           /\ last'.status = "Completed"
           /\ handleCompleteStep(email, stepId, args)
           /\ StoredAs(email) # {})
          => LET stored == CHOOSE f \in StoredAs(email) : TRUE IN
             KeysKept(files[stored], files'[stored], SawKeys)]_vars

\* C6: a read-only call that names an email in another letter case than the
\* stored one reads the stored profile and leaves it alone.
C6_CaseVariantsShareOneProfile ==
    [][\A email \in NamedEmails :
          (/\ last'.tool \in {"get_current_step", "get_progress"}
           /\ handleGetCurrentStep(email) \/ handleGetProgress(email)
           /\ toLowerCase(email) \in DOMAIN files)
          => files' = files]_vars

\* C7: start_onboarding and register_employee for an email that has a stored
\* profile leave its name, buddyEmail, department and progress as they were.
C7_OverridesOnlyAtCreation ==
    [][\A email \in NamedEmails, info \in Infos :
          (/\ last'.tool \in {"start_onboarding", "register_employee"}
           /\ handleStartOnboarding(email, info) \/ handleRegisterEmployee(email, info)
           /\ StoredAs(email) # {})
          => LET stored == CHOOSE f \in StoredAs(email) : TRUE IN
             /\ files'[stored].name = files[stored].name
             /\ files'[stored].buddyEmail = files[stored].buddyEmail
             /\ files'[stored].department = files[stored].department
             /\ files'[stored].completedSteps = files[stored].completedSteps
             /\ files'[stored].currentStep = files[stored].currentStep]_vars

\* C8: startDate and metadata.createdAt of a stored profile never change.
C8_StartDateImmutable ==
    [][\A f \in DOMAIN files :
          /\ f \in DOMAIN files'
          /\ files'[f].startDate = files[f].startDate
          /\ files'[f].metadata.createdAt = files[f].metadata.createdAt]_vars

C10_RequestTouchesOnlyStepData ==
    [][\A email \in NamedEmails, deviceType \in DeviceTypes, managerEmail \in ManagerEmails :
          (/\ last'.tool = "request_saw_device"
           /\ handleRequestSAWDevice(email, deviceType, managerEmail)
           /\ StoredAs(email) # {})
          => LET stored == CHOOSE f \in StoredAs(email) : TRUE IN
             /\ DOMAIN files' = DOMAIN files
             /\ \A f \in DOMAIN files \ {stored} : files'[f] = files[f]
             /\ files'[stored].completedSteps = files[stored].completedSteps
             /\ files'[stored].currentStep = files[stored].currentStep
             /\ [files'[stored] EXCEPT !.stepData = <<>>, !.metadata.lastUpdated = 0]
                   = [files[stored] EXCEPT !.stepData = <<>>, !.metadata.lastUpdated = 0]
             /\ \A k \in DOMAIN files[stored].stepData \ {SawStep} :
                   /\ k \in DOMAIN files'[stored].stepData
                   /\ files'[stored].stepData[k] = files[stored].stepData[k]
             /\ DOMAIN files'[stored].stepData = DOMAIN files[stored].stepData \cup {SawStep}
             /\ files'[stored].stepData[SawStep].sawRequestId.ms = now
             /\ files'[stored].metadata.lastUpdated = now
             /\ \E i \in DOMAIN progressIndex'[1].profiles :
                   /\ progressIndex'[1].profiles[i].email = stored
                   /\ progressIndex'[1].profiles[i].currentStep = files[stored].currentStep
                   /\ progressIndex'[1].profiles[i].lastUpdated = now]_vars

\* A device request answered for a profile that has completed step 1 and is
\* at step 2.
C10_Witness ==
    /\ last.tool = "request_saw_device"
    /\ last.status = "Requested"
    /\ \E f \in DOMAIN files :
          /\ files[f].completedSteps = <<1>>
          /\ files[f].currentStep = 2
          /\ SawStep \in DOMAIN files[f].stepData
          /\ "sawRequestId" \in DOMAIN files[f].stepData[SawStep]

\* C11: complete_step without a step id completes the current step of the
\* profile it reads (step 1 of the profile it had to create): the call
\* answers Completed, never AlreadyCompleted or OutOfOrder, and the step
\* appended to completedSteps is that current step.  Without an email the
\* profile is the only stored one; when the caller cannot be identified the
\* call has no profile and asks for registration.
C11_OmittedIdCompletesCurrentStep ==
    [][\A email \in EmailArgs, args \in CompletionArgs :
          (last'.tool = "complete_step" /\ handleCompleteStep(email, <<>>, args)) =>
              LET read == IF email # <<>> THEN StoredAs(email)
                          ELSE IF Cardinality(DOMAIN files) = 1 THEN DOMAIN files ELSE {}
              IN  /\ last'.status \notin {"AlreadyCompleted", "OutOfOrder"}
                  /\ \A f \in read :
                        /\ last'.status = "Completed"
                        /\ files'[f].completedSteps =
                              Append(files[f].completedSteps, files[f].currentStep)
                  /\ (read = {} /\ email # <<>>) =>
                        /\ last'.status = "Completed"
                        /\ files'[toLowerCase(email)].completedSteps = <<1>>
                  /\ (read = {} /\ email = <<>>) =>
                        /\ last'.status = "RegistrationRequired"
                        /\ files' = files]_vars

\* A completion of a step whose id no explicit stepId argument of the model
\* reaches: the call that completed it left the step id out.
C11_Witness ==
    /\ last.tool = "complete_step"
    /\ last.status = "Completed"
    /\ \E f \in DOMAIN files :
          /\ Len(files[f].completedSteps) >= 2
          /\ LastOf(files[f].completedSteps) > MaxStepArg

\* C12: a call that reads the profile of an email whose file exists works on
\* the stored profile and writes nothing; when no file exists it creates a
\* profile with currentStep 1, no completed steps and no step data, and the
\* profile file and the index hold it when the call returns.
C12_GetOrCreate ==
    [][\A email \in NamedEmails :
          (/\ last'.tool \in {"get_current_step", "get_progress"}
           /\ handleGetCurrentStep(email) \/ handleGetProgress(email))
          => /\ \A f \in StoredAs(email) :
                   /\ files' = files
                   /\ progressIndex' = progressIndex
                   /\ last'.tool = "get_current_step" =>
                         last'.upcoming = IF files[f].currentStep \in ConfiguredIds
                                          THEN <<files[f].currentStep>> ELSE <<>>
             /\ StoredAs(email) = {} =>
                   LET made == toLowerCase(email) IN
                   /\ DOMAIN files' = DOMAIN files \cup {made}
                   /\ files'[made].email = made
                   /\ files'[made].currentStep = 1
                   /\ files'[made].completedSteps = <<>>
                   /\ files'[made].stepData = <<>>
                   /\ files'[made].startDate = now
                   /\ \E i \in DOMAIN progressIndex'[1].profiles :
                         /\ progressIndex'[1].profiles[i].email = made
                         /\ progressIndex'[1].profiles[i].currentStep = 1
                   /\ last'.tool = "get_current_step" =>
                         last'.upcoming = IF 1 \in ConfiguredIds THEN <<1>> ELSE <<>>]_vars

\* A profile created by a read-only call at time 1 and found in the file and
\* in the index after it.
C12_Witness ==
    /\ last.tool = "get_current_step"
    /\ now = 1
    /\ DOMAIN files = {aliceLower}
    /\ files[aliceLower].metadata.createdAt = 1
    /\ files[aliceLower].completedSteps = <<>>
    /\ progressIndex # <<>>
    /\ progressIndex[1].totalEmployees = 1

\* A read-only call answered from a stored profile that has progress.
C12_WitnessStored ==
    /\ last.tool = "get_current_step"
    /\ last.upcoming = <<2>>
    /\ \E f \in DOMAIN files : files[f].completedSteps = <<1>>

\* C13: no profile file ever holds a step id twice in completedSteps.
C13_NoDuplicateCompletedSteps ==
    \A f \in DOMAIN files :
        \A i, j \in DOMAIN files[f].completedSteps :
            i # j => files[f].completedSteps[i] # files[f].completedSteps[j]

\* A profile with three completed steps, one of them completed after a
\* repeated call for an earlier one was turned down.
C13_Witness ==
    /\ last.tool = "complete_step"
    /\ last.status = "AlreadyCompleted"
    /\ \E f \in DOMAIN files : Len(files[f].completedSteps) = 3

\* C14: the write of a complete_step invocation replaces the profile that the
\* invocation read: no other invocation has read and written that profile
\* between the read and the write, so no persisted update is overwritten by
\* a profile computed from a stale read.
C14_NoStaleWrite ==
    [][finishCompleteStep =>
          \E f \in DOMAIN files :
              /\ toLowerCase(f) = pending[1].read.email
              /\ files[f] = pending[1].read]_vars

\* C15: a tool invocation that fails (its response is an error) has written
\* nothing: the profile files and the index are as they were before it.
C15_FailureWritesNothing ==
    [][\A stepId \in StepIdArgs, args \in CompletionArgs, info \in Infos :
          (/\ last'.isError
           /\ \/ handleCompleteStep(aliceLower, stepId, args)
              \/ handleGetCurrentStep(aliceLower)
              \/ handleRegisterEmployee(aliceLower, info))
          => /\ files' = files
             /\ progressIndex' = progressIndex]_vars

\* C16: a call for an email whose profile file exists but cannot be read or
\* parsed answers with an error and returns no profile; the file is left as
\* it is.
C16_UnreadableProfileFails ==
    [][\A stepId \in StepIdArgs, args \in CompletionArgs :
          (/\ aliceLower \in unreadable
           /\ \/ handleCompleteStep(aliceLower, stepId, args)
              \/ handleGetCurrentStep(aliceLower))
          => /\ last'.isError
             /\ files' = files
             /\ unreadable' = unreadable]_vars

\* The step list of the configuration and the documents of the directory.
Configured == getAllSteps(stepsDir)

DocsOf(id, ext) == {i \in DOMAIN stepsDir : stepsDir[i].stepNo = <<id>> /\ stepsDir[i].ext = ext}

RecordsOf(id) == {i \in DOMAIN Configured : Configured[i].id = id}

\* C17: a response of get_current_step, complete_step or start_onboarding
\* that reports all onboarding steps completed is given only when at least
\* one step is configured and the profile has completed as many steps as are
\* configured.
C17_AllCompletedMeansAllSteps ==
    (/\ last.tool \in {"get_current_step", "complete_step", "start_onboarding"}
     /\ last.status \in {"CurrentStep", "Completed", "Welcome"}
     /\ last.upcoming = <<>>)
    => /\ Len(Configured) > 0
       /\ \E f \in DOMAIN files : Len(files[f].completedSteps) = Len(Configured)

\* C18: for an id that has a Markdown document and an HTML document the step
\* list holds no record made from the HTML document: every record of that id
\* is a Markdown one, there is one per Markdown document of the id, hence
\* exactly one when the id has one Markdown document.
C18_MarkdownWins ==
    \A id \in 1..2 :
        (DocsOf(id, "md") # {} /\ DocsOf(id, "html") # {}) =>
            /\ \A i \in RecordsOf(id) : Configured[i].isMarkdown
            /\ Cardinality(RecordsOf(id)) = Cardinality(DocsOf(id, "md"))
            /\ Cardinality(DocsOf(id, "md")) = 1 => Cardinality(RecordsOf(id)) = 1

\* get_all_steps has listed a directory where the HTML document of step 1
\* comes before its Markdown document and step 2 has an HTML document only.
C18_Witness ==
    /\ last.tool = "get_all_steps"
    /\ last.upcoming = <<1, 2>>
    /\ stepsDir = << StepFile(<<1>>, "accounts", "html"),
                     StepFile(<<2>>, "first-pr", "html"),
                     StepFile(<<1>>, "accounts", "md") >>
    /\ Configured[1].isMarkdown
    /\ ~Configured[2].isMarkdown

\* C19: the step list that get_all_steps presents is strictly ascending by
\* id, whatever the documents of the directory are: it is sorted and no id
\* comes twice.
C19_StrictlyAscending ==
    last.tool = "get_all_steps" =>
        /\ last.upcoming = [i \in DOMAIN Configured |-> Configured[i].id]
        /\ \A i, j \in DOMAIN last.upcoming : i < j => last.upcoming[i] < last.upcoming[j]

\* C20: a document whose name has no step-<N> part gives no record: every
\* step that get_all_steps presents has the id of a document named step-<id>,
\* and the documents that have such a name are loaded all the same.
C20_NoIdDocumentSkipped ==
    last.tool = "get_all_steps" =>
        /\ \A i \in DOMAIN last.upcoming :
              \E d \in DOMAIN stepsDir : stepsDir[d].stepNo = <<last.upcoming[i]>>
        /\ \A d \in DOMAIN stepsDir :
              stepsDir[d].stepNo # <<>> =>
                  \E i \in DOMAIN last.upcoming : stepsDir[d].stepNo = <<last.upcoming[i]>>

\* C21: complete_step answers every step id with a normal response whose
\* status tells the outcome: AlreadyCompleted for a completed step,
\* OutOfOrder for another step than the current one, Completed for the
\* current step; none of the three carries the error flag.
C21_OutcomesAreNormalResults ==
    [][\A email \in NamedEmails, n \in 1..MaxStepArg, args \in CompletionArgs :
          (last'.tool = "complete_step" /\ handleCompleteStep(email, <<n>>, args)) =>
              /\ ~last'.isError
              /\ last'.status \in {"Completed", "AlreadyCompleted", "OutOfOrder"}
              /\ \A f \in StoredAs(email) :
                    /\ (last'.status = "AlreadyCompleted") =
                          (n \in Range(files[f].completedSteps))
                    /\ (last'.status = "OutOfOrder") =
                          (n \notin Range(files[f].completedSteps) /\ n # files[f].currentStep)
                    /\ (last'.status = "Completed") =
                          (n \notin Range(files[f].completedSteps) /\ n = files[f].currentStep)
              /\ StoredAs(email) = {} =>
                    last'.status = IF n = 1 THEN "Completed" ELSE "OutOfOrder"]_vars

\* A repeated step turned down with a normal response.
C21_Witness ==
    /\ last = [NoCall EXCEPT !.tool = "complete_step", !.status = "AlreadyCompleted"]
    /\ \E f \in DOMAIN files : files[f].completedSteps = <<1>>

\* C23: metadata.lastUpdated of a stored profile changes only when the
\* profile is written, and every write sets it to the time of the write: a
\* profile file whose content changes carries the current time, a call that
\* saves (Completed, Requested, Registered) leaves the current time in the
\* profile, and a call that ends in AlreadyCompleted
\* or OutOfOrder or only reads leaves lastUpdated of the profile it read as
\* it was.
C23_LastUpdatedOnlyOnWrite ==
    [][/\ \A f \in DOMAIN files' :
             (f \notin DOMAIN files \/ files'[f] # files[f]) =>
                 files'[f].metadata.lastUpdated = now
       /\ \A f \in DOMAIN files : f \in DOMAIN files'
       /\ (last' # last /\ last'.status \in {"Completed", "Requested", "Registered"}) =>
             \E f \in DOMAIN files' : files'[f].metadata.lastUpdated = now
       /\ \A email \in NamedEmails :
             (/\ last'.status \in {"AlreadyCompleted", "OutOfOrder", "CurrentStep", "Progress"}
              /\ \E f \in StoredAs(email) :
                    files'[f].metadata.lastUpdated # files[f].metadata.lastUpdated)
             => /\ ~handleGetCurrentStep(email)
                /\ ~handleGetProgress(email)
                /\ \A n \in 1..MaxStepArg, args \in CompletionArgs :
                      ~handleCompleteStep(email, <<n>>, args)]_vars

\* A profile created at time 0 and written again by a completion at time 1.
C23_Witness ==
    /\ last.tool = "complete_step"
    /\ last.status = "Completed"
    /\ now = 1
    /\ \E f \in DOMAIN files :
          /\ files[f].metadata.createdAt = 0
          /\ files[f].metadata.lastUpdated = 1
          /\ files[f].stepData[1].completedAt = 1

\* No email can be determined for a call that names none: the environment
\* holds no email and no user and domain, and the profile directory does not
\* hold exactly one profile.
Undetermined ==
    /\ env.email = <<>>
    /\ env.username = <<>> \/ env.domain = <<>>
    /\ Cardinality(DOMAIN files) # 1

\* C22: a call without an email, for which none can be determined, is
\* answered with the instruction to register, without the error flag, by
\* every tool that works on the caller's profile, and the profile files and
\* the index are left as they are; when an email can be determined the call
\* is not answered that way.
C22_UnresolvedIdentityAsksToRegister ==
    [][LET asked ==
               /\ Undetermined =>
                     /\ last'.status = "RegistrationRequired"
                     /\ ~last'.isError
                     /\ files' = files
                     /\ progressIndex' = progressIndex
               /\ ~Undetermined => last'.status # "RegistrationRequired"
       IN  /\ (last'.tool = "start_onboarding" /\ handleStartOnboarding(<<>>, NoInfo))
                 => asked
           /\ (last'.tool = "get_current_step" /\ handleGetCurrentStep(<<>>)) => asked
           /\ (last'.tool = "get_progress" /\ handleGetProgress(<<>>)) => asked
           /\ (/\ last'.tool = "complete_step"
               /\ \E stepId \in StepIdArgs, args \in CompletionArgs :
                      handleCompleteStep(<<>>, stepId, args)) => asked
           /\ (/\ last'.tool = "request_saw_device"
               /\ \E deviceType \in DeviceTypes, managerEmail \in ManagerEmails :
                      handleRequestSAWDevice(<<>>, deviceType, managerEmail)) => asked]_vars

\* A call without an email turned away while two profiles are stored.
C22_Witness ==
    /\ last.status = "RegistrationRequired"
    /\ ~last.isError
    /\ env = NoEnv
    /\ DOMAIN files = {aliceLower, bobLower}

\* The lastUpdated values of a list of index entries or profiles never rise.
NewestFirst(times) == \A i, j \in DOMAIN times : i < j => times[i] >= times[j]

\* C24: once a profile is stored the index is the summary of the stored
\* profiles: as many entries as there are profiles, totalEmployees equal to
\* that number, for every profile an entry with its email, currentStep and
\* lastUpdated, and the entries ordered most recently updated first.
C24_IndexIsSummary ==
    files # <<>> =>
        /\ progressIndex # <<>>
        /\ LET index == progressIndex[1] IN
           /\ index.totalEmployees = Cardinality(DOMAIN files)
           /\ Len(index.profiles) = Cardinality(DOMAIN files)
           /\ \A f \in DOMAIN files :
                 \E i \in DOMAIN index.profiles :
                     index.profiles[i] =
                         [email       |-> files[f].email,
                          currentStep |-> files[f].currentStep,
                          lastUpdated |-> files[f].metadata.lastUpdated]
           /\ NewestFirst([i \in DOMAIN index.profiles |-> index.profiles[i].lastUpdated])

\* Two profiles, the one listed second by the directory updated last and
\* entered first in the index.
C24_Witness ==
    /\ DOMAIN files = {aliceLower, bobLower}
    /\ progressIndex[1].profiles[1].email = bobLower
    /\ progressIndex[1].profiles[1].currentStep = 2
    /\ progressIndex[1].profiles[1].lastUpdated > progressIndex[1].profiles[2].lastUpdated

\* C25: get_employee_list changes no stored state and lists every stored
\* profile once or, with a buddy filter, exactly the profiles whose
\* buddyEmail equals the filter, most recently updated first; with nothing
\* to list it answers that no employees were found, without an error.
C25_ListsStoredProfiles ==
    [][\A buddyEmail \in BuddyArgs :
          (last'.tool = "get_employee_list" /\ handleGetEmployeeList(buddyEmail)) =>
              LET wanted == {f \in DOMAIN files :
                                buddyEmail = undefined \/ files[f].buddyEmail = buddyEmail}
              IN  /\ files' = files
                  /\ progressIndex' = progressIndex
                  /\ ~last'.isError
                  /\ Range(last'.listed) = {files[f].email : f \in wanted}
                  /\ Len(last'.listed) = Cardinality(wanted)
                  /\ NewestFirst([i \in DOMAIN last'.listed |->
                                     files[last'.listed[i]].metadata.lastUpdated])
                  /\ (last'.status = "NoEmployees") = (wanted = {})]_vars

\* Both profiles listed, the more recently updated one first although the
\* directory lists it second.
C25_Witness ==
    /\ last.tool = "get_employee_list"
    /\ last.listed = <<bobLower, aliceLower>>
    /\ files[bobLower].metadata.lastUpdated > files[aliceLower].metadata.lastUpdated

\* A list filtered by buddy that leaves out a stored profile.
C25_WitnessFiltered ==
    /\ last.tool = "get_employee_list"
    /\ last.listed = <<aliceLower>>
    /\ DOMAIN files = {aliceLower, bobLower}

\* The documents of the step directory that can be read.
ReadableDocs == {stepsDir[i] : i \in {j \in DOMAIN stepsDir : stepsDir[j].readable}}

\* The documents that give a record when each document that can be read is
\* loaded: every such Markdown document, and every such HTML document whose
\* id no such Markdown document has.
LoadedDocs ==
    {d \in ReadableDocs :
        \/ d.ext = "md"
        \/ d.ext = "html" /\ \A m \in ReadableDocs : m.ext = "md" => fileId(m) # fileId(d)}

\* The record of document d among the steps of the last response.
RecordOf(d) ==
    {k \in DOMAIN last.steps :
        last.steps[k].id = fileId(d) /\ last.steps[k].isMarkdown = (d.ext = "md")}

\* C26: when the step directory cannot be listed, getAllSteps gives the
\* empty list and getStep gives nothing for every id, and the tools that
\* call them answer without error.
C26_MissingDirectoryGivesNoSteps ==
    stepsDir = NoDirectory =>
        /\ last.tool # "none" => \A stepId \in 0..MaxCurrentStep : getStep(stepsDir, stepId) = <<>>
        /\ last.tool = "get_all_steps" => last.steps = <<>> /\ ~last.isError
        /\ last.tool = "get_current_step" => last.upcoming = <<>> /\ ~last.isError

\* get_all_steps answered on a directory that cannot be listed.
C26_Witness ==
    /\ stepsDir = NoDirectory
    /\ last.tool = "get_all_steps"
    /\ last.status = "AllSteps"

\* get_current_step answered on a directory that cannot be listed, for a
\* profile that has moved on to step 2.
C26_WitnessGetStep ==
    /\ stepsDir = NoDirectory
    /\ last.tool = "get_current_step"
    /\ files[aliceLower].currentStep = 2

\* C27: a document that cannot be read costs only its own record: the load
\* does not fail, and get_all_steps presents one record for every document
\* that gives one when the documents that can be read are loaded, and no
\* other record.
C27_FailureIsPerDocument ==
    (last.tool = "get_all_steps" /\ stepsDir # NoDirectory) =>
        /\ ~last.isError
        /\ \A d \in LoadedDocs : RecordOf(d) # {}
        /\ \A k \in DOMAIN last.steps : \E d \in LoadedDocs : k \in RecordOf(d)
        /\ Len(last.steps) = Cardinality(LoadedDocs)

\* A directory of one document that cannot be read and one that can, the
\* latter presented.
C27_Witness ==
    /\ last.tool = "get_all_steps"
    /\ Len(stepsDir) = 2
    /\ Cardinality(ReadableDocs) = 1
    /\ Len(last.steps) = 1

\* The Markdown document of step 1 cannot be read and the HTML document of
\* step 1 is presented.
C27_WitnessFallback ==
    /\ last.tool = "get_all_steps"
    /\ \E i \in DOMAIN stepsDir :
          stepsDir[i].ext = "md" /\ fileId(stepsDir[i]) = 1 /\ ~stepsDir[i].readable
    /\ Len(last.steps) = 1
    /\ last.steps[1].id = 1
    /\ ~last.steps[1].isMarkdown

\* A label carries an optional marker.
HasOptionalMarker(label) ==
    includesText(toLowerCase(label), <<"o", "p", "t", "i", "o", "n", "a", "l">>)

\* C28: the record of a Markdown document has required true when the
\* document has no "Step X of Y | label" line, false when the label
\* contains an optional marker in any letter case, and true for every
\* other label.
C28_RequiredUnlessOptional ==
    last.tool = "get_all_steps" =>
        \A d \in LoadedDocs :
            d.ext = "md" =>
                \A k \in RecordOf(d) :
                    \/ Cardinality({m \in LoadedDocs : m.ext = "md" /\ fileId(m) = fileId(d)}) > 1
                    \/ last.steps[k].required =
                           (d.label = <<>> \/ ~HasOptionalMarker(d.label[1]))

\* The links of a document, in the order of its body.
LinksOf(d) ==
    LET pieces == SelectSeq(d.body, LAMBDA piece : piece.kind # "text")
    IN  [i \in DOMAIN pieces |-> [text |-> pieces[i].text, url |-> pieces[i].url]]

\* C30: the record of a document, Markdown or HTML, has as resources the
\* links of the document, one entry for each in document order, and has no
\* resources at all when the document has no link.
C30_ResourcesInDocumentOrder ==
    last.tool = "get_all_steps" =>
        /\ ~last.isError
        /\ \A d \in LoadedDocs :
              \A k \in RecordOf(d) :
                  \/ Cardinality({m \in LoadedDocs : m.ext = d.ext /\ fileId(m) = fileId(d)}) > 1
                  \/ last.steps[k].resources =
                         IF LinksOf(d) = <<>> THEN <<>> ELSE <<LinksOf(d)>>

\* A Markdown document whose two links are separated by text, presented with
\* both links in that order.
C30_Witness ==
    /\ last.tool = "get_all_steps"
    /\ Len(last.steps) = 1
    /\ last.steps[1].isMarkdown
    /\ last.steps[1].resources =
           << <<[text |-> "Faq", url |-> "/faq"], [text |-> "Wiki", url |-> "/wiki"]>> >>

\* The same for an HTML document.
C30_WitnessHtml ==
    /\ last.tool = "get_all_steps"
    /\ Len(last.steps) = 1
    /\ ~last.steps[1].isMarkdown
    /\ last.steps[1].resources =
           << <<[text |-> "Faq", url |-> "/faq"], [text |-> "Wiki", url |-> "/wiki"]>> >>

\* A Markdown document with text and no link, presented without resources.
C30_WitnessNoLinks ==
    /\ last.tool = "get_all_steps"
    /\ Len(stepsDir) = 1
    /\ stepsDir[1].body = <<WikiText>>
    /\ stepsDir[1].ext = "md"
    /\ Len(last.steps) = 1
    /\ last.steps[1].resources = <<>>

\* The pieces of s between the occurrences of any character of seps.
RECURSIVE splitAny(_, _)
splitAny(s, seps) ==
    IF \A i \in DOMAIN s : s[i] \notin seps
    THEN <<s>>
    ELSE LET i == CHOOSE j \in DOMAIN s :
                      s[j] \in seps /\ \A k \in 1..(j - 1) : s[k] \notin seps
         IN  <<SubSeq(s, 1, i - 1)>> \o splitAny(SubSeq(s, i + 1, Len(s)), seps)

\* The name the local part of an email stands for: its segments between '.'
\* and '_', each capitalized, joined with a space.
DerivedName(email) == joinCapitalized(splitAny(split(email, "@")[1], {".", "_"}))

\* C29: a profile created without a name has the name derived from the
\* local part of its email: the segments between '.' and '_', capitalized
\* and joined with a space (the capitalized local part when it has neither),
\* also when the local part has both separators.
C29_NameFromEmail ==
    \A f \in DOMAIN files : files[f].name = DerivedName(files[f].email)

\* C31: progress is never lost: whatever tool is called, a stored profile
\* stays stored, every step in its completedSteps stays there, and its
\* currentStep does not decrease.
C31_ProgressNeverLost ==
    [][\A f \in DOMAIN files :
          /\ f \in DOMAIN files'
          /\ Range(files[f].completedSteps) \subseteq Range(files'[f].completedSteps)
          /\ files'[f].currentStep >= files[f].currentStep]_vars

\* C32: every id in the completedSteps of a stored profile is the id of a
\* configured step, so that no profile has more completed steps than there
\* are configured steps.
C32_CompletedStepsAreConfigured ==
    \A f \in DOMAIN files :
        /\ Range(files[f].completedSteps) \subseteq ConfiguredIds
        /\ Len(files[f].completedSteps) <= Cardinality(ConfiguredIds)

\* C33: no step is skipped: when all configured ids are positive, every
\* configured id below the currentStep of a stored profile is in its
\* completedSteps and every id in its completedSteps is below its
\* currentStep.
C33_NoStepSkipped ==
    (\A id \in ConfiguredIds : id > 0) =>
        \A f \in DOMAIN files :
            /\ \A id \in ConfiguredIds :
                  id < files[f].currentStep => id \in Range(files[f].completedSteps)
            /\ \A id \in Range(files[f].completedSteps) : id < files[f].currentStep

\* A profile that has completed steps 1 and 2 of a step list with ids 1, 2
\* and 4 and stands at step 4.
C33_Witness ==
    /\ stepsDir = GapSteps
    /\ \E f \in DOMAIN files :
          /\ files[f].completedSteps = <<1, 2>>
          /\ files[f].currentStep = 4
          /\ SawStep \in DOMAIN files[f].stepData

\* C35: in a stored profile stepData[k] has a completedAt field exactly when
\* k is in completedSteps.
C35_CompletedAtIffCompleted ==
    \A f \in DOMAIN files :
        /\ \A k \in Range(files[f].completedSteps) :
              k \in DOMAIN files[f].stepData /\ "completedAt" \in DOMAIN files[f].stepData[k]
        /\ \A k \in DOMAIN files[f].stepData :
              "completedAt" \in DOMAIN files[f].stepData[k]
                  => k \in Range(files[f].completedSteps)

\* A profile with a device request on step 2, not completed, next to the
\* record of the completed step 1.
C35_Witness ==
    \E f \in DOMAIN files :
        /\ files[f].completedSteps = <<1>>
        /\ "completedAt" \in DOMAIN files[f].stepData[1]
        /\ SawStep \in DOMAIN files[f].stepData
        /\ "requestedAt" \in DOMAIN files[f].stepData[SawStep]
        /\ "completedAt" \notin DOMAIN files[f].stepData[SawStep]

\* A device request made before and after the completion of step 2: the
\* record of step 2 has both the request and the completion.
C35_WitnessMerged ==
    \E f \in DOMAIN files :
        /\ SawStep \in Range(files[f].completedSteps)
        /\ {"completedAt", "requestedAt"} \subseteq DOMAIN files[f].stepData[SawStep]

C37_IndexSettlesAfterOverlap ==
    (pending = <<>> /\ files # <<>>) =>
        /\ progressIndex # <<>>
        /\ Len(progressIndex[1].profiles) = Cardinality(DOMAIN files)
        /\ \A f \in DOMAIN files :
              \E i \in DOMAIN progressIndex[1].profiles :
                  /\ progressIndex[1].profiles[i].email = files[f].email
                  /\ progressIndex[1].profiles[i].currentStep = files[f].currentStep
                  /\ progressIndex[1].profiles[i].lastUpdated = files[f].metadata.lastUpdated

\* The elements of s are in strictly ascending order.
Ascending(s) == \A i, j \in DOMAIN s : i < j => s[i] < s[j]

\* No call completes a step 0: a profile starts at step 1, its current step
\* only grows, and a step id 0 in the arguments reads as none given.  The
\* calls after the bound of the model go on in the same way.
StepZeroNeverCompleted == \A f \in DOMAIN files : 0 \notin Range(files[f].completedSteps)

C38_ReadOnlyToolsWriteNothing ==
    [][LET kept == files' = files /\ progressIndex' = progressIndex
       IN  /\ last'.tool = "get_current_step" =>
                \A email \in ReadEmails \ {<<>>} :
                    (StoredAs(email) # {} /\ handleGetCurrentStep(email)) => kept
           /\ last'.tool = "get_progress" =>
                \A email \in ReadEmails \ {<<>>} :
                    (StoredAs(email) # {} /\ handleGetProgress(email)) => kept
           /\ last'.tool = "get_all_steps" => (handleGetAllSteps => kept)
           /\ last'.tool = "get_employee_list" =>
                \A buddyEmail \in BuddyArgs : handleGetEmployeeList(buddyEmail) => kept
      ]_vars

\* get_progress has answered for a stored profile after time has passed,
\* with two profiles stored and steps completed.
C38_Witness ==
    /\ last.tool = "get_progress" /\ last.status = "Progress"
    /\ Cardinality(DOMAIN files) = 2
    /\ \E f \in DOMAIN files :
          files[f].completedSteps # <<>> /\ files[f].metadata.lastUpdated < now

====
